---- MODULE Spec2Model ----
(***************************************************************************)
(* Model of the Jira work-item assistant backend (an Express router in     *)
(* src/routes.ts, the format check of src/middleware.ts and the generation *)
(* client of src/openai.ts).                                               *)
(*                                                                         *)
(* A JavaScript value is a record [t, s]: t is its type and s its text, a  *)
(* sequence of text fragments (single characters for issue keys and        *)
(* headers, longer fragments for the fixed text of prompt templates).      *)
(* An await of an HTTP call is two steps: the collaborator answers         *)
(* (TrackerRespond, OpenAIRespond) and then the handler resumes.           *)
(***************************************************************************)
EXTENDS Integers, Sequences, FiniteSets, TLC

VARIABLES
    phase,       \* per request: "idle", "await" (call in flight), "resume", "done"
    request,     \* per request: [route, auth, body]
    projectKey,  \* per request: the handler's local projectKey
    created,     \* per request: the handler's local created list (/create-tasks)
    idx,         \* per request: position of the for-of loop in the list
    calls,       \* per request: the outbound calls it issued, in order
    response,    \* per request: the HTTP response sent
    doneBefore,  \* per request: the requests already answered when it arrived
    nextId,      \* issue tracker: number of the next issue
    issues,      \* issue tracker: the issues it holds
    links,       \* issue tracker: the issue links it holds
    updates,     \* issue tracker: the description updates it applied
    deployment,  \* process.env.AZURE_OPENAI_DEPLOYMENT(_NAME) is set
    promptIn,    \* arguments of a direct buildPrompt call
    promptOut    \* its result

vars == << phase, request, projectKey, created, idx, calls, response, doneBefore,
           nextId, issues, links, updates, deployment, promptIn, promptOut >>

(***************************************************************************)
(* Bounds                                                                  *)
(***************************************************************************)
MaxReq == 2      \* requests in one behaviour
MaxTasks == 2    \* longest tasks / testCases array

Req == 1..MaxReq

(***************************************************************************)
(* JavaScript values                                                       *)
(***************************************************************************)
Undefined == [t |-> "undefined", s |-> << >>]
Null == [t |-> "null", s |-> << >>]
Str(s) == [t |-> "string", s |-> s]
Num(d) == [t |-> "number", s |-> d]

Truthy(v) ==
    CASE v.t = "undefined" -> FALSE
      [] v.t = "null" -> FALSE
      [] v.t = "string" -> v.s # << >>
      [] v.t = "number" -> v.s # <<"0">>
      [] OTHER -> TRUE

\* String(v), as a template literal or JSON text renders a value
ToText(v) ==
    CASE v.t = "undefined" -> <<"undefined">>
      [] v.t = "null" -> <<"null">>
      [] OTHER -> v.s

StartsWith(s, p) == Len(s) >= Len(p) /\ SubSeq(s, 1, Len(p)) = p

\* s.split("-")[0]
FirstSep(s) ==
    IF \E i \in 1..Len(s) : s[i] = "-"
    THEN CHOOSE i \in 1..Len(s) : s[i] = "-" /\ \A j \in 1..(i - 1) : s[j] # "-"
    ELSE Len(s) + 1

SplitFirst(s) == SubSeq(s, 1, FirstSep(s) - 1)

Digit(n) == IF n \in 0..9 THEN <<"0","1","2","3","4","5","6","7","8","9">>[n + 1] ELSE "N"


(***************************************************************************)
(* Inputs a client can send                                                *)
(***************************************************************************)
BearerPrefix == <<"B","e","a","r","e","r"," ">>

\* req.headers.authorization: absent, or the header's text (possibly empty)
AuthHeaders ==
    { Undefined,
      Str(<< >>),
      Str(BearerPrefix \o <<"x">>),
      Str(<<"B","e","a","r","e","r">>),
      Str(<<"T","o","k","e","n"," ","a","b","c">>) }

\* req.body.issueKey
IssueKeyValues ==
    { Undefined,
      Str(<< >>),
      Str(<<"P","-","1">>),
      Str(<<"Q","A","-","2","-","3">>),
      Str(<<"N","O","S","E","P">>),
      Num(<<"5">>) }

\* req.params.issueKey: the route matches only a non-empty path segment
PathKeys == { Str(<<"P","-","1">>), Str(<<"N","O","S","E","P">>) }

\* one entry of a tasks / testCases array
Entry(title, desc) == [t |-> "object", title |-> title, description |-> desc]
NullEntry == [t |-> "null", title |-> Undefined, description |-> Undefined]
TaskA == Entry(Str(<<"A">>), Str(<<"d">>))
TaskB == Entry(Str(<<"B">>), Undefined)
Entries == { TaskA, TaskB, NullEntry }

ArraysOf(E) == UNION { [1..n -> E] : n \in 0..MaxTasks }

\* req.body.tasks / req.body.testCases: a is the array's entries
Arr(a) == [t |-> "array", a |-> a]
NotArray(t) == [t |-> t, a |-> << >>]
ListValues == { Arr(a) : a \in ArraysOf(Entries) } \cup { NotArray("undefined"), NotArray("string") }

DescriptionValues == { Undefined, Str(<< >>), Str(<<"d">>) }
TitleValues == { Undefined, Null, Str(<< >>), Str(<<"T">>) }
TypeValues == { Undefined, Str(<<"Story">>) }
ActionValues ==
    { Undefined, Str(<< >>), Str(<<"tasks">>), Str(<<"testcases">>), Str(<<"criteria">>),
      Str(<<"description">>), Str(<<"bug">>), Str(<<"other">>) }

NoBody ==
    [issueKey |-> Undefined, list |-> NotArray("undefined"), description |-> Undefined,
     title |-> Undefined, type |-> Undefined, action |-> Undefined]

NoRequest == [route |-> "none", auth |-> Undefined, body |-> NoBody]

(***************************************************************************)
(* Outbound calls and HTTP responses                                       *)
(***************************************************************************)
NoCall ==
    [op |-> "none", entry |-> 0, project |-> << >>, summary |-> Undefined,
     description |-> Undefined, issuetype |-> "", rel |-> "", inwardIssue |-> << >>,
     outwardIssue |-> Undefined, issueKey |-> << >>, prompt |-> Undefined,
     state |-> "inflight", key |-> << >>, output |-> Undefined]

NoResponse == [status |-> 0, kind |-> "none", error |-> "", created |-> << >>, output |-> << >>]

ErrorResponse(status, msg) == [NoResponse EXCEPT !.status = status, !.kind = "error", !.error = msg]

LastCall(r) == calls[r][Len(calls[r])]

\* x || "" for the optional text of an upstream answer
OrEmpty(v) == IF Truthy(v) THEN v.s ELSE << >>

(***************************************************************************)
(* Prompt Builder (routes.ts, buildPrompt)                                 *)
(***************************************************************************)
TasksPrompt(title, desc, type) ==
    <<"\nBreak this Jira ">> \o ToText(type)
      \o <<" into implementation tasks.\n\nRules:\nReturn ONLY valid JSON:\n{ \"tasks\": [ { \"title\": \"\", \"description\": \"\" } ] }\n\nTitle: ">>
      \o ToText(title) \o <<"\nDescription: ">> \o ToText(desc) \o <<"\n">>

TestcasesPrompt(title) ==
    <<"\nGenerate Jira test cases.\n\nReturn ONLY JSON:\n{ \"testCases\": [ { \"title\": \"\", \"steps\": [{ \"action\": \"\", \"expected\": \"\" }] } ] }\n\nTitle: ">>
      \o ToText(title) \o <<"\n">>

CriteriaPrompt(title) == <<"Generate acceptance criteria for Jira Story: ">> \o ToText(title)

DescriptionPrompt(title, type) ==
    ToText(type) \o <<": ">> \o ToText(title)
      \o <<" \n\n\"\"\"\nYou are an expert Agile Product Owner assistant ... (user story format, acceptance criteria, example)\n\"\"\"\n">>

BugPrompt(desc) == <<"Summarize this Jira bug clearly: ">> \o ToText(desc)

\* a default branch that falls back to the description
DefaultPromptDescription(title, desc, type, action) == desc

\* the switch's default branch
DefaultPrompt(title, desc, type, action) == title

buildPrompt(title, desc, type, action) ==
    CASE action = Str(<<"tasks">>) -> Str(TasksPrompt(title, desc, type))
      [] action = Str(<<"testcases">>) -> Str(TestcasesPrompt(title))
      [] action = Str(<<"criteria">>) -> Str(CriteriaPrompt(title))
      [] action = Str(<<"description">>) -> Str(DescriptionPrompt(title, type))
      [] action = Str(<<"bug">>) -> Str(BugPrompt(desc))
      [] OTHER -> DefaultPrompt(title, desc, type, action)

(***************************************************************************)
(* Auth Gate (middleware.ts, authMiddleware)                               *)
(***************************************************************************)
\* auth && !auth.startsWith("Bearer ")
AuthRejects(auth) == Truthy(auth) /\ ~StartsWith(auth.s, BearerPrefix)

\* a gate that answers 403
AuthRejectionForbidden == ErrorResponse(403, "Invalid auth format")

AuthRejection == ErrorResponse(401, "Invalid auth format")

(***************************************************************************)
(* Shared steps of the handlers                                            *)
(***************************************************************************)
Arrive(r, route, auth, body) ==
    /\ phase[r] = "idle"
    /\ request' = [request EXCEPT ![r] = [route |-> route, auth |-> auth, body |-> body]]
    /\ doneBefore' = [doneBefore EXCEPT ![r] = {q \in Req : phase[q] = "done"}]

\* res.status(..).json(..) / res.json(..): the request is answered
Send(r, resp) ==
    /\ phase' = [phase EXCEPT ![r] = "done"]
    /\ response' = [response EXCEPT ![r] = resp]

\* await of an outbound call: the call is issued and the handler suspends
Await(r, call) ==
    /\ phase' = [phase EXCEPT ![r] = "await"]
    /\ calls' = [calls EXCEPT ![r] = Append(@, call)]
    /\ UNCHANGED response

Rejected(r, auth) ==
    /\ Send(r, AuthRejection)
    /\ UNCHANGED << projectKey, created, idx, calls >>

TrackerVars == << nextId, issues, links, updates >>
PromptVars == << promptIn, promptOut >>

\* a handler step that makes no outbound call and sets no local
Answer(r, resp) ==
    /\ Send(r, resp)
    /\ UNCHANGED << projectKey, created, idx, calls >>

(***************************************************************************)
(* POST /create-tasks (routes.ts 108-173)                                  *)
(***************************************************************************)
\* !issueKey || !Array.isArray(tasks)
TasksInvalid(body) == ~Truthy(body.issueKey) \/ body.list.t # "array"

\* a project key taken after the separator: issueKey.split("-")[1]
ProjectKeyOfSecond(issueKey) ==
    SplitFirst(SubSeq(issueKey.s, FirstSep(issueKey.s) + 1, Len(issueKey.s)))

\* issueKey.split("-")[0]
ProjectKeyOf(issueKey) == SplitFirst(issueKey.s)

TaskCreateCall(pk, i, task) ==
    [NoCall EXCEPT !.op = "create", !.entry = i, !.project = pk, !.summary = task.title,
                   !.description = task.description, !.issuetype = "Task"]

LinkCall(i, newIssueKey, issueKey) ==
    [NoCall EXCEPT !.op = "link", !.entry = i, !.rel = "Relates",
                   !.inwardIssue = newIssueKey, !.outwardIssue = issueKey]

TasksCreated(r, list) ==
    [NoResponse EXCEPT !.status = 200, !.kind = "created", !.created = list]

TasksFailed == ErrorResponse(500, "Task creation failed")

\* a loop that skips the entries the tracker already holds an issue for
TasksEntrySkipExisting(r, i, pk, cr) ==
    LET list == request'[r].body.list.a
        fresh == {j \in i..Len(list) :
                     list[j].t = "null" \/ ~\E x \in issues : x.project = pk /\ x.summary = list[j].title}
        n == IF fresh = {} THEN Len(list) + 1 ELSE CHOOSE j \in fresh : \A k \in fresh : j <= k
    IN
    /\ idx' = [idx EXCEPT ![r] = n]
    /\ IF n > Len(list)
       THEN Send(r, TasksCreated(r, cr)) /\ UNCHANGED calls
       ELSE IF list[n].t = "null"
       THEN Send(r, TasksFailed) /\ UNCHANGED calls
       ELSE Await(r, TaskCreateCall(pk, n, list[n]))

\* the for-of loop reaches position i with the created list cr: the loop ends and
\* the response is sent, or the entry's create call is issued (reading a property
\* of a null entry throws, which the catch answers)
TasksEntry(r, i, pk, cr) ==
    LET list == request'[r].body.list.a IN
    /\ idx' = [idx EXCEPT ![r] = i]
    /\ IF i > Len(list)
       THEN Send(r, TasksCreated(r, cr)) /\ UNCHANGED calls
       ELSE IF list[i].t = "null"
       THEN Send(r, TasksFailed) /\ UNCHANGED calls
       ELSE Await(r, TaskCreateCall(pk, i, list[i]))

\* the handler up to its first await, behind the Auth Gate
ReceiveCreateTasks(r, H, K, L) ==
    \E auth \in H, key \in K, list \in L :
       LET body == [NoBody EXCEPT !.issueKey = key, !.list = list] IN
       /\ Arrive(r, "create-tasks", auth, body)
       /\ IF AuthRejects(auth)
          THEN Rejected(r, auth)
          ELSE IF TasksInvalid(body)
          THEN Answer(r, ErrorResponse(400, "Invalid payload"))
          ELSE IF key.t # "string"
          THEN Answer(r, TasksFailed)
          ELSE /\ projectKey' = [projectKey EXCEPT ![r] = ProjectKeyOf(key)]
               /\ created' = [created EXCEPT ![r] = << >>]
               /\ TasksEntry(r, 1, ProjectKeyOf(key), << >>)
       /\ UNCHANGED << TrackerVars, deployment, PromptVars >>

\* a loop that does not link: the next create follows the create
ResumeCreateTasksNoLink(r) ==
    LET c == LastCall(r) IN
    /\ phase[r] = "resume"
    /\ request[r].route = "create-tasks"
    /\ UNCHANGED << request, doneBefore, TrackerVars, deployment, PromptVars >>
    /\ IF c.state = "failed"
       THEN Answer(r, TasksFailed)
       ELSE /\ created' = [created EXCEPT ![r] = Append(@, c.key)]
            /\ TasksEntry(r, idx[r] + 1, projectKey[r], Append(created[r], c.key))
            /\ UNCHANGED projectKey

\* a created list shared by all requests (declared outside the handler)
ResumeCreateTasksShared(r) ==
    LET c == LastCall(r) IN
    /\ phase[r] = "resume"
    /\ request[r].route = "create-tasks"
    /\ UNCHANGED << request, doneBefore, TrackerVars, deployment, PromptVars >>
    /\ IF c.state = "failed"
       THEN Answer(r, TasksFailed)
       ELSE IF c.op = "create"
       THEN /\ created' = [q \in Req |-> Append(created[q], c.key)]
            /\ Await(r, LinkCall(c.entry, c.key, request[r].body.issueKey))
            /\ UNCHANGED << projectKey, idx >>
       ELSE /\ TasksEntry(r, idx[r] + 1, projectKey[r], created[r])
            /\ UNCHANGED << projectKey, created >>

\* the handler resumes after an awaited call
ResumeCreateTasks(r) ==
    LET c == LastCall(r) IN
    /\ phase[r] = "resume"
    /\ request[r].route = "create-tasks"
    /\ UNCHANGED << request, doneBefore, TrackerVars, deployment, PromptVars >>
    /\ IF c.state = "failed"
       THEN Answer(r, TasksFailed)
       ELSE IF c.op = "create"
       THEN /\ created' = [created EXCEPT ![r] = Append(@, c.key)]
            /\ Await(r, LinkCall(c.entry, c.key, request[r].body.issueKey))
            /\ UNCHANGED << projectKey, idx >>
       ELSE /\ TasksEntry(r, idx[r] + 1, projectKey[r], created[r])
            /\ UNCHANGED << projectKey, created >>

(***************************************************************************)
(* POST /create-testcases (routes.ts 179-231)                              *)
(***************************************************************************)
\* !issueKey || !Array.isArray(testCases)
TestcasesInvalid(body) == ~Truthy(body.issueKey) \/ body.list.t # "array"

TestCreateCall(pk, i, tc) ==
    [NoCall EXCEPT !.op = "create", !.entry = i, !.project = pk, !.summary = tc.title,
                   !.issuetype = "Test"]

TestcasesDone == [NoResponse EXCEPT !.status = 200, !.kind = "success"]

TestcasesFailed == ErrorResponse(500, "Test case creation failed")

TestcasesEntry(r, i, pk) ==
    LET list == request'[r].body.list.a IN
    /\ idx' = [idx EXCEPT ![r] = i]
    /\ IF i > Len(list)
       THEN Send(r, TestcasesDone) /\ UNCHANGED calls
       ELSE IF list[i].t = "null"
       THEN Send(r, TestcasesFailed) /\ UNCHANGED calls
       ELSE Await(r, TestCreateCall(pk, i, list[i]))

ReceiveCreateTestcases(r, H, K, L) ==
    \E auth \in H, key \in K, list \in L :
       LET body == [NoBody EXCEPT !.issueKey = key, !.list = list] IN
       /\ Arrive(r, "create-testcases", auth, body)
       /\ IF AuthRejects(auth)
          THEN Rejected(r, auth)
          ELSE IF TestcasesInvalid(body)
          THEN Answer(r, ErrorResponse(400, "Invalid payload"))
          ELSE IF key.t # "string"
          THEN Answer(r, TestcasesFailed)
          ELSE /\ projectKey' = [projectKey EXCEPT ![r] = ProjectKeyOf(key)]
               /\ TestcasesEntry(r, 1, ProjectKeyOf(key))
               /\ UNCHANGED created
       /\ UNCHANGED << TrackerVars, deployment, PromptVars >>

\* a loop that swallows a failed call and goes on with the next entry
ResumeCreateTestcasesSwallow(r) ==
    LET c == LastCall(r) IN
    /\ phase[r] = "resume"
    /\ request[r].route = "create-testcases"
    /\ UNCHANGED << request, doneBefore, TrackerVars, deployment, PromptVars >>
    /\ IF c.op = "create" /\ c.state = "ok"
       THEN /\ Await(r, LinkCall(c.entry, c.key, request[r].body.issueKey))
            /\ UNCHANGED << projectKey, created, idx >>
       ELSE /\ TestcasesEntry(r, idx[r] + 1, projectKey[r])
            /\ UNCHANGED << projectKey, created >>

ResumeCreateTestcases(r) ==
    LET c == LastCall(r) IN
    /\ phase[r] = "resume"
    /\ request[r].route = "create-testcases"
    /\ UNCHANGED << request, doneBefore, TrackerVars, deployment, PromptVars >>
    /\ IF c.state = "failed"
       THEN Answer(r, TestcasesFailed)
       ELSE IF c.op = "create"
       THEN /\ Await(r, LinkCall(c.entry, c.key, request[r].body.issueKey))
            /\ UNCHANGED << projectKey, created, idx >>
       ELSE /\ TestcasesEntry(r, idx[r] + 1, projectKey[r])
            /\ UNCHANGED << projectKey, created >>

(***************************************************************************)
(* GET /issue/:issueKey (routes.ts 46-78)                                  *)
(***************************************************************************)
GetCall(issueKey) == [NoCall EXCEPT !.op = "get", !.issueKey = ToText(issueKey)]

IssueFailed == ErrorResponse(500, "Failed to fetch issue")

ReceiveIssue(r, H, K) ==
    \E auth \in H, key \in K :
       /\ Arrive(r, "issue", auth, [NoBody EXCEPT !.issueKey = key])
       /\ IF AuthRejects(auth)
          THEN Rejected(r, auth)
          ELSE IF ~Truthy(key)
          THEN Answer(r, ErrorResponse(400, "Missing issue key"))
          ELSE Await(r, GetCall(key)) /\ UNCHANGED << projectKey, created, idx >>
       /\ UNCHANGED << TrackerVars, deployment, PromptVars >>

ResumeIssue(r) ==
    LET c == LastCall(r) IN
    /\ phase[r] = "resume"
    /\ request[r].route = "issue"
    /\ IF c.state = "failed"
       THEN Answer(r, IssueFailed)
       ELSE Answer(r, [NoResponse EXCEPT !.status = 200, !.kind = "issue",
                                          !.output = OrEmpty(c.output)])
    /\ UNCHANGED << request, doneBefore, TrackerVars, deployment, PromptVars >>

(***************************************************************************)
(* POST /analyze (routes.ts 86-102) and generate (openai.ts 15-42)         *)
(***************************************************************************)
\* a check that refuses only when both fields are missing: !title && !action
AnalyzeInvalidBoth(body) == ~Truthy(body.title) /\ ~Truthy(body.action)

\* !title || !action
AnalyzeInvalid(body) == ~Truthy(body.title) \/ ~Truthy(body.action)

\* buildPrompt(title, description, type, action)
AnalyzePrompt(body) == buildPrompt(body.title, body.description, body.type, body.action)

GenerateCall(prompt) == [NoCall EXCEPT !.op = "generate", !.prompt = prompt]

AnalyzeFailed == ErrorResponse(500, "AI failure")

\* generate(prompt): throws before any request when no deployment is configured
Generate(r, prompt) ==
    IF deployment
    THEN Await(r, GenerateCall(prompt))
    ELSE /\ calls' = [calls EXCEPT ![r] = Append(@, [GenerateCall(prompt) EXCEPT !.state = "failed"])]
         /\ Send(r, AnalyzeFailed)

ReceiveAnalyze(r, H) ==
    \E auth \in H, title \in TitleValues, desc \in DescriptionValues,
       type \in TypeValues, action \in ActionValues :
       LET body == [NoBody EXCEPT !.title = title, !.description = desc,
                                  !.type = type, !.action = action] IN
       /\ Arrive(r, "analyze", auth, body)
       /\ IF AuthRejects(auth)
          THEN Rejected(r, auth)
          ELSE IF AnalyzeInvalid(body)
          THEN Answer(r, ErrorResponse(400, "Invalid payload"))
          ELSE Generate(r, AnalyzePrompt(body)) /\ UNCHANGED << projectKey, created, idx >>
       /\ UNCHANGED << TrackerVars, deployment, PromptVars >>

ResumeAnalyze(r) ==
    LET c == LastCall(r) IN
    /\ phase[r] = "resume"
    /\ request[r].route = "analyze"
    /\ IF c.state = "failed"
       THEN Answer(r, AnalyzeFailed)
       ELSE Answer(r, [NoResponse EXCEPT !.status = 200, !.kind = "output",
                                          !.output = OrEmpty(c.output)])
    /\ UNCHANGED << request, doneBefore, TrackerVars, deployment, PromptVars >>

(***************************************************************************)
(* POST /update-description (routes.ts 238-276): no Auth Gate              *)
(***************************************************************************)
\* !issueKey || !description
UpdateInvalid(body) == ~Truthy(body.issueKey) \/ ~Truthy(body.description)

PutCall(issueKey, description) ==
    [NoCall EXCEPT !.op = "put", !.issueKey = ToText(issueKey), !.description = description]

UpdateFailed == ErrorResponse(500, "Update failed")

ReceiveUpdateDescription(r, H, K) ==
    \E auth \in H, key \in K, desc \in DescriptionValues :
       LET body == [NoBody EXCEPT !.issueKey = key, !.description = desc] IN
       /\ Arrive(r, "update-description", auth, body)
       /\ IF UpdateInvalid(body)
          THEN Answer(r, ErrorResponse(400, "Invalid payload"))
          ELSE Await(r, PutCall(key, desc)) /\ UNCHANGED << projectKey, created, idx >>
       /\ UNCHANGED << TrackerVars, deployment, PromptVars >>

ResumeUpdateDescription(r) ==
    LET c == LastCall(r) IN
    /\ phase[r] = "resume"
    /\ request[r].route = "update-description"
    /\ IF c.state = "failed"
       THEN Answer(r, UpdateFailed)
       ELSE Answer(r, [NoResponse EXCEPT !.status = 200, !.kind = "success"])
    /\ UNCHANGED << request, doneBefore, TrackerVars, deployment, PromptVars >>

(***************************************************************************)
(* The collaborators: the issue tracker and the chat-completion API        *)
(***************************************************************************)
Settle(r, c) ==
    /\ phase' = [phase EXCEPT ![r] = "resume"]
    /\ calls' = [calls EXCEPT ![r][Len(calls[r])] = c]

\* the tracker answers the call in flight: it fails, or it carries the call out
TrackerRespond(r) ==
    LET c == LastCall(r) IN
    /\ phase[r] = "await"
    /\ c.op \in {"create", "link", "get", "put"}
    /\ \/ /\ Settle(r, [c EXCEPT !.state = "failed"])
          /\ UNCHANGED TrackerVars
       \/ /\ c.op = "create"
          /\ nextId <= 9
          /\ LET key == c.project \o <<"-", Digit(nextId)>> IN
             /\ issues' = issues \cup {[key |-> key, project |-> c.project,
                                        summary |-> c.summary, issuetype |-> c.issuetype]}
             /\ Settle(r, [c EXCEPT !.state = "ok", !.key = key])
          /\ nextId' = nextId + 1
          /\ UNCHANGED << links, updates >>
       \/ /\ c.op = "link"
          /\ links' = links \cup {[rel |-> c.rel, inwardIssue |-> c.inwardIssue,
                                   outwardIssue |-> c.outwardIssue]}
          /\ Settle(r, [c EXCEPT !.state = "ok"])
          /\ UNCHANGED << nextId, issues, updates >>
       \/ /\ c.op = "get"
          /\ \E text \in {Undefined, Str(<<"d">>)} :
                Settle(r, [c EXCEPT !.state = "ok", !.key = c.issueKey, !.output = text])
          /\ UNCHANGED TrackerVars
       \/ /\ c.op = "put"
          /\ updates' = updates \cup {[issueKey |-> c.issueKey, description |-> c.description]}
          /\ Settle(r, [c EXCEPT !.state = "ok"])
          /\ UNCHANGED << nextId, issues, links >>
    /\ UNCHANGED << request, projectKey, created, idx, response, doneBefore,
                    deployment, PromptVars >>

\* the completion API answers: it fails, or returns a first choice, or none
OpenAIRespond(r) ==
    LET c == LastCall(r) IN
    /\ phase[r] = "await"
    /\ c.op = "generate"
    /\ \E out \in {"failed", "text", "nochoice"} :
          Settle(r, CASE out = "failed" -> [c EXCEPT !.state = "failed"]
                      [] out = "text" -> [c EXCEPT !.state = "ok", !.output = Str(<<"generated">>)]
                      [] OTHER -> [c EXCEPT !.state = "ok"])
    /\ UNCHANGED << request, projectKey, created, idx, response, doneBefore,
                    TrackerVars, deployment, PromptVars >>

(***************************************************************************)
(* A direct call of buildPrompt on string arguments                        *)
(***************************************************************************)
PromptTitles == { Str(<< >>), Str(<<"T">>), Str(<<"tasks">>) }
PromptTexts == { Str(<< >>), Str(<<"d">>) }
PromptTypes == { Str(<< >>), Str(<<"Story">>), Str(<<"Bug">>) }
PromptActions == ActionValues \ {Undefined}

NoPromptIn == [title |-> Undefined, desc |-> Undefined, type |-> Undefined, action |-> Undefined]
NoPromptOut == [applied |-> FALSE, value |-> Undefined]

ApplyBuildPrompt ==
    /\ ~promptOut.applied
    /\ promptIn # NoPromptIn
    /\ promptOut' = [applied |-> TRUE,
                     value |-> buildPrompt(promptIn.title, promptIn.desc, promptIn.type, promptIn.action)]
    /\ UNCHANGED << phase, request, projectKey, created, idx, calls, response, doneBefore,
                    TrackerVars, deployment, promptIn >>

(***************************************************************************)
(* Specifications                                                          *)
(***************************************************************************)
InitServer ==
    /\ phase = [r \in Req |-> "idle"]
    /\ request = [r \in Req |-> NoRequest]
    /\ projectKey = [r \in Req |-> << >>]
    /\ created = [r \in Req |-> << >>]
    /\ idx = [r \in Req |-> 0]
    /\ calls = [r \in Req |-> << >>]
    /\ response = [r \in Req |-> NoResponse]
    /\ doneBefore = [r \in Req |-> {}]
    /\ nextId = 1
    /\ issues = {}
    /\ links = {}
    /\ updates = {}

Init ==
    /\ InitServer
    /\ deployment \in BOOLEAN
    /\ promptIn = NoPromptIn
    /\ promptOut = NoPromptOut

\* no other request has arrived
Alone(r) == \A q \in Req \ {r} : phase[q] = "idle"

\* requests are numbered in their order of arrival
InOrder(r) == \A q \in Req : q < r => phase[q] # "idle"

\* one request, of any route, header and body, from arrival to response
Next ==
    \E r \in Req :
       \/ Alone(r) /\ ReceiveIssue(r, AuthHeaders, PathKeys)
       \/ Alone(r) /\ ReceiveAnalyze(r, AuthHeaders)
       \/ Alone(r) /\ ReceiveCreateTasks(r, AuthHeaders, IssueKeyValues, ListValues)
       \/ Alone(r) /\ ReceiveCreateTestcases(r, AuthHeaders, IssueKeyValues, ListValues)
       \/ Alone(r) /\ ReceiveUpdateDescription(r, AuthHeaders, IssueKeyValues)
       \/ TrackerRespond(r)
       \/ OpenAIRespond(r)
       \/ ResumeIssue(r)
       \/ ResumeAnalyze(r)
       \/ ResumeCreateTasks(r)
       \/ ResumeCreateTestcases(r)
       \/ ResumeUpdateDescription(r)

Spec == Init /\ [][Next]_vars

\* well-formed /create-tasks requests handled concurrently
ConcKeys == { Str(<<"P","-","1">>) }
ConcLists == { Arr(<<TaskA, TaskB>>), Arr(<<TaskB>>), Arr(<< >>) }

InitConc ==
    /\ InitServer
    /\ deployment = TRUE
    /\ promptIn = NoPromptIn
    /\ promptOut = NoPromptOut

NextConc ==
    \E r \in Req :
       \/ InOrder(r) /\ ReceiveCreateTasks(r, {Undefined}, ConcKeys, ConcLists)
       \/ TrackerRespond(r)
       \/ ResumeCreateTasks(r)

SpecConc == InitConc /\ [][NextConc]_vars

\* buildPrompt applied to string arguments
InitPrompt ==
    /\ InitServer
    /\ deployment = TRUE
    /\ promptIn \in [title : PromptTitles, desc : PromptTexts, type : PromptTypes,
                     action : PromptActions]
    /\ promptOut = NoPromptOut

NextPrompt == ApplyBuildPrompt

SpecPrompt == InitPrompt /\ [][NextPrompt]_vars

(***************************************************************************)
(* Vocabulary of the properties                                            *)
(***************************************************************************)
Arrived(r) == phase[r] # "idle"
Done(r) == phase[r] = "done"
Route(r) == request[r].route
Body(r) == request[r].body

\* the Authorization header is present / starts with "Bearer "
HeaderPresent(r) == request[r].auth.t = "string"
HeaderBearer(r) == HeaderPresent(r) /\ StartsWith(request[r].auth.s, BearerPrefix)

\* the handler ran: the answer is not the gate's
Reached(r) == Arrived(r) /\ response[r].status # 401

NonEmptyString(v) == v.t = "string" /\ v.s # << >>
MissingOrEmpty(v) == v.t \in {"undefined", "null"} \/ (v.t = "string" /\ v.s = << >>)

ListRoute(r) == Route(r) \in {"create-tasks", "create-testcases"}
List(r) == Body(r).list.a
AllObjects(r) == Body(r).list.t = "array" /\ \A i \in 1..Len(List(r)) : List(r)[i].t = "object"

NoFailure(r) == \A k \in 1..Len(calls[r]) : calls[r][k].state # "failed"
InFlight(r) == {k \in 1..Len(calls[r]) : calls[r][k].state = "inflight"}

\* the calls of r are create(1), link(1), create(2), link(2), ... as far as they go
Alternating(r) ==
    \A k \in 1..Len(calls[r]) :
       /\ calls[r][k].entry = (k + 1) \div 2
       /\ calls[r][k].op = IF k % 2 = 1 THEN "create" ELSE "link"

\* the keys the tracker returned to r's create calls, in call order
RECURSIVE KeysOf(_)
KeysOf(cs) ==
    IF cs = << >> THEN << >>
    ELSE IF Head(cs).op = "create" /\ Head(cs).state = "ok"
         THEN <<Head(cs).key>> \o KeysOf(Tail(cs))
         ELSE KeysOf(Tail(cs))

SequentialSuccess(r) ==
    /\ Alternating(r)
    /\ InFlight(r) \subseteq {Len(calls[r])}
    /\ (phase[r] = "await") = (InFlight(r) # {})
    /\ Len(calls[r]) <= 2 * Len(List(r))
    /\ Done(r) => /\ Len(calls[r]) = 2 * Len(List(r))
                  /\ response[r] = [NoResponse EXCEPT !.status = 200, !.kind = "created",
                                                      !.created = KeysOf(calls[r])]
                  /\ Len(response[r].created) = Len(List(r))

\* C1 (as amended): for POST /create-tasks with a non-empty string issueKey and a
\* tasks array of n object entries, while no tracker call fails, the tracker calls
\* are create(1), link(1), ..., create(n), link(n) in list order, at most the last
\* one in flight, and the response is {success:true, created:[k1..kn]} with ki the
\* key returned by the i-th create.
C1_SequentialCreateLink ==
    \A r \in Req :
       (/\ Reached(r) /\ Route(r) = "create-tasks"
        /\ NonEmptyString(Body(r).issueKey) /\ AllObjects(r)
        /\ NoFailure(r))
       => SequentialSuccess(r)

\* C1 as stated: the same for every truthy issueKey and every tasks array
C1_Original ==
    \A r \in Req :
       (/\ Reached(r) /\ Route(r) = "create-tasks"
        /\ Truthy(Body(r).issueKey) /\ Body(r).list.t = "array"
        /\ NoFailure(r))
       => SequentialSuccess(r)

C1_Witness ==
    \E r \in Req :
       /\ Done(r) /\ Route(r) = "create-tasks" /\ NoFailure(r)
       /\ List(r) = <<TaskA, TaskB>>
       /\ Len(calls[r]) = 4
       /\ response[r].created = << <<"P","-","1">>, <<"P","-","2">> >>

\* the first failed call of r, or 0
FirstFailure(r) ==
    IF NoFailure(r) THEN 0
    ELSE CHOOSE k \in 1..Len(calls[r]) :
            calls[r][k].state = "failed" /\ \A j \in 1..(k - 1) : calls[r][j].state # "failed"

Held(key) == \E i \in issues : i.key = key

\* C2: in POST /create-tasks and /create-testcases, once a create or link call of
\* entry N fails, no further call is issued (none for a later entry, no delete or
\* other compensating call), the response is a 500 with an error body, and every
\* issue created before the failure stays in the tracker.
C2_AbortNoRollback ==
    \A r \in Req :
       (Arrived(r) /\ ListRoute(r) /\ ~NoFailure(r)) =>
          LET f == FirstFailure(r) IN
          /\ f = Len(calls[r])
          /\ \A k \in 1..Len(calls[r]) :
                /\ calls[r][k].op \in {"create", "link"}
                /\ calls[r][k].entry <= calls[r][f].entry
                /\ (calls[r][k].op = "create" /\ k < f) => Held(calls[r][k].key)
          /\ Len(KeysOf(calls[r])) =
                IF calls[r][f].op = "link" THEN calls[r][f].entry ELSE calls[r][f].entry - 1
          /\ phase[r] \in {"resume", "done"}
          /\ Done(r) => /\ response[r].status = 500
                        /\ response[r].kind = "error"
                        /\ response[r].error # ""

\* the link of the first of two tasks failed: a 500, and exactly one issue created
C2_Witness ==
    \E r \in Req :
       /\ Done(r) /\ Route(r) = "create-tasks"
       /\ Len(List(r)) = 2
       /\ Len(calls[r]) = 2 /\ calls[r][2].op = "link" /\ calls[r][2].state = "failed"
       /\ response[r].status = 500
       /\ Cardinality(issues) = 1

\* C3 as stated: on every route but /update-description a present Authorization
\* header that does not start with "Bearer " is answered 401 and the handler never
\* runs; an absent or "Bearer " header reaches the handler; /update-description is
\* never answered by the gate.
C3_AuthGate ==
    \A r \in Req :
       Arrived(r) =>
          IF Route(r) = "update-description"
          THEN response[r].status # 401
          ELSE /\ (HeaderPresent(r) /\ ~HeaderBearer(r)) =>
                     /\ Done(r)
                     /\ response[r] = ErrorResponse(401, "Invalid auth format")
                     /\ calls[r] = << >>
               /\ (~HeaderPresent(r) \/ HeaderBearer(r)) => response[r].status # 401

Failure(r) == Done(r) /\ response[r].status # 200

\* C4 (as amended): every failure response carries an error string and a status
\* of 400, 401 or 500; 401 is the Auth Gate's answer only, and 400 and 500 are
\* every handler's.
C4_FailureStatuses ==
    \A r \in Req :
       Done(r) =>
          \/ /\ response[r].status = 200
             /\ response[r].kind # "error"
             /\ response[r].error = ""
          \/ /\ response[r].status \in {400, 401, 500}
             /\ response[r].kind = "error"
             /\ response[r].error # ""
             /\ response[r].status = 401 =>
                   (Route(r) # "update-description" /\ HeaderPresent(r) /\ ~HeaderBearer(r))

\* C4 as stated: a failure's status is 400 or 500, never another
C4_Original ==
    \A r \in Req :
       Failure(r) => /\ response[r].status \in {400, 500}
                     /\ response[r].kind = "error"
                     /\ response[r].error # ""

C4_Witness ==
    \E r \in Req :
       /\ Failure(r) /\ Route(r) = "analyze"
       /\ response[r].status = 401
       /\ response[r].error = "Invalid auth format"

\* C5: POST /analyze with a missing or empty title or action is answered 400 with
\* an error body and makes no generation call; with both present, generate is
\* called exactly once, with buildPrompt(title, description, type, action), and the
\* response is {output} when it succeeds and a 500 with an error body when it throws.
C5_AnalyzeValidation ==
    \A r \in Req :
       (Reached(r) /\ Route(r) = "analyze") =>
          IF MissingOrEmpty(Body(r).title) \/ MissingOrEmpty(Body(r).action)
          THEN /\ Done(r)
               /\ response[r].status = 400 /\ response[r].kind = "error" /\ response[r].error # ""
               /\ calls[r] = << >>
          ELSE /\ Len(calls[r]) = 1
               /\ calls[r][1].op = "generate"
               /\ calls[r][1].prompt =
                     buildPrompt(Body(r).title, Body(r).description, Body(r).type, Body(r).action)
               /\ Done(r) =>
                     IF calls[r][1].state = "ok"
                     THEN /\ response[r].status = 200 /\ response[r].kind = "output"
                          /\ response[r].output = OrEmpty(calls[r][1].output)
                     ELSE /\ calls[r][1].state = "failed"
                          /\ response[r].status = 500 /\ response[r].kind = "error"
                          /\ response[r].error # ""

\* a full request is answered with the output generated for its prompt
C5_Witness ==
    \E r \in Req :
       /\ Done(r) /\ Route(r) = "analyze" /\ response[r].status = 200
       /\ Body(r).action = Str(<<"bug">>)
       /\ calls[r][1].prompt = Str(<<"Summarize this Jira bug clearly: ", "d">>)
       /\ response[r].output = <<"generated">>

\* a required field is missing or not of the expected type
Malformed(r) ==
    \/ ~NonEmptyString(Body(r).issueKey)
    \/ ListRoute(r) /\ Body(r).list.t # "array"
    \/ Route(r) = "update-description" /\ Body(r).description.t = "undefined"

\* C6 as stated: on /create-tasks, /create-testcases and /update-description a
\* request whose required fields are missing or of the wrong shape is answered 400
\* before any tracker call: never a 500, and the tracker is never reached.
C6_MalformedIs400 ==
    \A r \in Req :
       (Reached(r) /\ (ListRoute(r) \/ Route(r) = "update-description") /\ Malformed(r)) =>
          /\ calls[r] = << >>
          /\ Done(r) /\ response[r].status = 400

\* p is s up to its first "-" (all of s when it has none)
PrefixBeforeSeparator(p, s) ==
    /\ Len(p) <= Len(s)
    /\ p = SubSeq(s, 1, Len(p))
    /\ \A i \in 1..Len(p) : p[i] # "-"
    /\ Len(p) < Len(s) => s[Len(p) + 1] = "-"

\* C7: every create call of a /create-tasks or /create-testcases request carries
\* the prefix of the request's issueKey before its first "-" as project key, and
\* every link call names the key returned by the create just before it as inward
\* issue, the request's issueKey as outward issue, and the relation "Relates".
C7_ProjectAndLink ==
    \A r \in Req :
       (Arrived(r) /\ ListRoute(r)) =>
          \A k \in 1..Len(calls[r]) :
             LET c == calls[r][k] IN
             /\ c.op = "create" =>
                   /\ Body(r).issueKey.t = "string"
                   /\ PrefixBeforeSeparator(c.project, Body(r).issueKey.s)
                   /\ c.project = projectKey[r]
             /\ c.op = "link" =>
                   /\ k > 1
                   /\ calls[r][k - 1].op = "create" /\ calls[r][k - 1].state = "ok"
                   /\ c.inwardIssue = calls[r][k - 1].key
                   /\ c.outwardIssue = Body(r).issueKey
                   /\ c.rel = "Relates"

\* two test cases created and linked under QA-2-3: both in project QA
C7_Witness ==
    \E r \in Req :
       /\ Done(r) /\ Route(r) = "create-testcases" /\ response[r].status = 200
       /\ Body(r).issueKey = Str(<<"Q","A","-","2","-","3">>)
       /\ Len(calls[r]) = 4
       /\ \A k \in {1, 3} : calls[r][k].project = <<"Q","A">>
       /\ calls[r][4].inwardIssue = <<"Q","A","-","2">>

\* the calls whose answer the handler of r has taken up
TakenUp(r) == IF phase[r] = "resume" THEN SubSeq(calls[r], 1, Len(calls[r]) - 1) ELSE calls[r]

\* b repeats the body of a, which had failed (after creating some issues) when b arrived
Retry(a, b) ==
    /\ a # b /\ Arrived(b)
    /\ a \in doneBefore[b]
    /\ response[a].status = 500
    /\ Body(a) = Body(b)

\* the issues the tracker holds for a project and a summary
Copies(project, summary) == {i \in issues : i.project = project /\ i.summary = summary}

\* C8: a /create-tasks request re-issued after it failed partway starts again at
\* the first entry and creates every entry it reaches, also those the first
\* attempt had created: the tracker then holds a second issue for each of them.
C8_RetryDuplicates ==
    \A a, b \in Req :
       Retry(a, b) =>
          /\ Len(calls[b]) >= 1
          /\ Alternating(b)
          /\ created[b] = KeysOf(TakenUp(b))
          /\ \A i \in 1..Len(created[b]) :
                i <= Len(created[a]) =>
                   /\ created[a][i] # created[b][i]
                   /\ Held(created[a][i]) /\ Held(created[b][i])
                   /\ Cardinality(Copies(projectKey[b], List(b)[i].title)) >= 2

\* the first attempt created A and B and failed linking B; the retry created both again
C8_Witness ==
    \E a, b \in Req :
       /\ Retry(a, b) /\ Done(b) /\ response[b].status = 200
       /\ Len(created[a]) = 2 /\ Len(created[b]) = 2
       /\ Cardinality(Copies(<<"P">>, Str(<<"A">>))) = 2
       /\ Cardinality(issues) = 4

Recognized == { Str(<<"tasks">>), Str(<<"testcases">>), Str(<<"criteria">>),
                Str(<<"description">>), Str(<<"bug">>) }

\* C9: buildPrompt returns a string for all string arguments; for each of the five
\* recognized actions the string is non-empty, and for every other action it is
\* exactly the title argument.
C9_BuildPromptTotal ==
    promptOut.applied =>
       /\ promptOut.value.t = "string"
       /\ promptIn.action \in Recognized => Len(promptOut.value.s) > 0
       /\ promptIn.action \notin Recognized => promptOut.value = promptIn.title

\* an unrecognized action with an empty title returns the empty title
C9_Witness ==
    /\ promptOut.applied
    /\ promptIn.action = Str(<<"other">>)
    /\ promptIn.title = Str(<< >>)
    /\ promptIn.desc = Str(<<"d">>)
    /\ promptOut.value = Str(<< >>)

\* keys returned to the create calls of the other requests
ForeignKeys(r) ==
    UNION { {calls[q][k].key : k \in {j \in 1..Len(calls[q]) : calls[q][j].op = "create"}} :
            q \in Req \ {r} }

\* C10: with several /create-tasks requests in progress at once, each request's
\* created list holds exactly the keys returned by its own create calls, in its
\* list order, and none created for another request; it is answered 500 exactly
\* when one of its own calls failed, and otherwise with its own keys.
C10_Independent ==
    \A r \in Req :
       Arrived(r) =>
          /\ created[r] = KeysOf(TakenUp(r))
          /\ \A i \in 1..Len(created[r]) :
                /\ created[r][i] \notin ForeignKeys(r)
                /\ \E k \in 1..Len(calls[r]) :
                      calls[r][k].op = "create" /\ calls[r][k].entry = i
                      /\ calls[r][k].key = created[r][i]
          /\ Done(r) =>
                IF NoFailure(r)
                THEN /\ response[r].status = 200
                     /\ response[r].created = KeysOf(calls[r])
                     /\ Len(response[r].created) = Len(List(r))
                ELSE response[r].status = 500

\* two interleaved requests: one fails at its first link, the other succeeds
C10_Witness ==
    \E a, b \in Req :
       /\ a # b /\ Done(a) /\ Done(b)
       /\ response[a].status = 200
       /\ response[a].created = << <<"P","-","1">>, <<"P","-","3">> >>
       /\ response[b].status = 500
       /\ created[b] = << <<"P","-","2">> >>

====
